---- MODULE Spec2Model ----
(***************************************************************************)
(* Model of the Project Gutenberg word-frequency application: the header   *)
(* extractors extract_title and extract_author_block, the tokenizer        *)
(* MyHTMLParser with its frequency method and load_stopwords               *)
(* (src/helpers_text.py), the database helpers get_or_create_author and    *)
(* store_word_frequencies (src/helpers_db.py), and the SUBMIT handler      *)
(* click (src/ProjGut-gui_main.py).                                        *)
(*                                                                         *)
(* A Python str is modelled as a sequence of one-character strings, so     *)
(* that slicing, stripping, case folding and the regular expressions are   *)
(* computed character by character as the code computes them.  Positions   *)
(* are 1-based here; a Python index i is position i + 1.                   *)
(***************************************************************************)
EXTENDS Integers, Sequences, FiniteSets, TLC

VARIABLES
  \* the document, and what the extractors returned for it
  text, title, author_block,
  \* the parser's token list, and the chunks handle_data was called with
  _words, fed,
  \* the arguments of the latest frequency call, and the table it returned
  arg_n, arg_stopwords, arg_top_k, full_counts,
  \* what the first of two runs over the document produced
  first_run,
  \* the stopword file, and the set load_stopwords returned
  stopwords_file, stopword_set,
  \* table author, and the id the latest get_or_create_author returned
  author, author_id,
  \* table wordFreqs, and the arguments of the latest
  \* store_word_frequencies call
  wordFreqs, last_gutID, last_top10,
  \* tables book and bookAuthors, and what the latest run of click did
  book, bookAuthors, run

header_vars == <<text, title, author_block>>

parser_vars == <<_words, fed>>

frequency_vars == <<arg_n, arg_stopwords, arg_top_k, full_counts, first_run>>

stopword_vars == <<stopwords_file, stopword_set>>

db_vars ==
  <<author, author_id, wordFreqs, last_gutID, last_top10, book, bookAuthors,
    run>>

vars == <<header_vars, parser_vars, frequency_vars, stopword_vars, db_vars>>

(***************************************************************************)
(* Bounds of the model.                                                    *)
(***************************************************************************)
\* documents of SpecHeaders have at most this many title-fixture lines
MaxTitleLines == 3
\* ... or at most this many author-fixture lines
MaxAuthorLines == 4
\* the chunks given to handle_data on one parser hold at most this many
\* raw tokens in all
MaxFedTokens == 3
\* documents of SpecPipeline have at most this many lines
MaxPipelineLines == 3
\* a readable stopword file has at most this many lines
MaxStopwordLines == 3
\* store_word_frequencies is given a list of at most this many pairs
MaxTopRows == 2
\* table author grows to at most this many rows
MaxAuthorRows == 3
\* the text whose words frequency counts holds at most this many words
MaxWords == 5
\* frequency is called with a threshold n of 0..MaxN
MaxN == 3
\* ... and with top_k None or -1..MaxTopK
MaxTopK == 2

(***************************************************************************)
(* Characters.                                                             *)
(***************************************************************************)
ascii_uppercase ==
  <<"A", "B", "C", "D", "E", "F", "G", "H", "I", "J", "K", "L", "M",
    "N", "O", "P", "Q", "R", "S", "T", "U", "V", "W", "X", "Y", "Z">>

ascii_lowercase ==
  <<"a", "b", "c", "d", "e", "f", "g", "h", "i", "j", "k", "l", "m",
    "n", "o", "p", "q", "r", "s", "t", "u", "v", "w", "x", "y", "z">>

\* string.punctuation (without the grave accent, which a TLA+ string cannot
\* hold; no input of the model contains it)
string_punctuation ==
  {"!", "\"", "#", "$", "%", "&", "'", "(", ")", "*", "+", ",", "-", ".",
   "/", ":", ";", "<", "=", ">", "?", "@", "[", "\\", "]", "^", "_",
   "{", "|", "}", "~"}

\* the characters str.strip(), str.split() and the regex class \s remove
whitespace == {" ", "\t", "\n", "\r", "\f"}

digits == {"0", "1", "2", "3", "4", "5", "6", "7", "8", "9"}

isupper(c) == \E i \in 1..26 : ascii_uppercase[i] = c

islower(c) == \E i \in 1..26 : ascii_lowercase[i] = c

\* the regex class [A-Za-z]; str.isalpha on the characters of the model
isalpha_char(c) == isupper(c) \/ islower(c)

isdigit(c) == c \in digits

lower_char(c) ==
  IF isupper(c)
  THEN ascii_lowercase[CHOOSE i \in 1..26 : ascii_uppercase[i] = c]
  ELSE c

(***************************************************************************)
(* str methods.                                                            *)
(***************************************************************************)
\* s.lower()
lower(s) == [i \in 1..Len(s) |-> lower_char(s[i])]

\* s[i-1:] for a position i
from_pos(s, i) == SubSeq(s, i, Len(s))

RECURSIVE lstrip_chars(_, _)
lstrip_chars(s, chars) ==
  IF s # <<>> /\ Head(s) \in chars THEN lstrip_chars(Tail(s), chars) ELSE s

RECURSIVE rstrip_chars(_, _)
rstrip_chars(s, chars) ==
  IF s # <<>> /\ s[Len(s)] \in chars
  THEN rstrip_chars(SubSeq(s, 1, Len(s) - 1), chars)
  ELSE s

\* s.strip(chars)
strip_chars(s, chars) == rstrip_chars(lstrip_chars(s, chars), chars)

\* s.strip()
strip(s) == strip_chars(s, whitespace)

\* s.rstrip()
rstrip(s) == rstrip_chars(s, whitespace)

\* s.startswith(prefix)
startswith(s, prefix) ==
  Len(s) >= Len(prefix) /\ SubSeq(s, 1, Len(prefix)) = prefix

\* s.find(c) for one character c, as a position; 0 when c does not occur
RECURSIVE find_char(_, _, _)
find_char(s, c, i) ==
  IF i > Len(s) THEN 0
  ELSE IF s[i] = c THEN i
  ELSE find_char(s, c, i + 1)

\* s.split(sep, 1)[1] for a one-character sep that occurs in s
split_1_second(s, sep) == from_pos(s, find_char(s, sep, 1) + 1)

\* text.splitlines(), for texts whose line breaks are "\n"
splitlines(s) ==
  LET is_end(i) == i = Len(s) + 1 \/ s[i] = "\n"
      ends == SelectSeq([i \in 1..(Len(s) + 1) |-> i], is_end)
      lines == [k \in 1..Len(ends) |->
                  SubSeq(s, IF k = 1 THEN 1 ELSE ends[k - 1] + 1,
                         ends[k] - 1)]
  IN IF s = <<>> \/ s[Len(s)] = "\n"
     THEN SubSeq(lines, 1, Len(lines) - 1)
     ELSE lines

(***************************************************************************)
(* Results: a function result is None or a str; a result variable is       *)
(* Pending until its function has been called.                             *)
(***************************************************************************)
Pending == <<"pending">>

None == <<"None">>

Str(s) == <<"str", s>>

IsStr(r) == Len(r) = 2

\* an int, a set and a dict (its items in iteration order), tagged like Str
IntOf(i) == <<"int", i>>

SetOf(S) == <<"set", S>>

DictOf(items) == <<"dict", items>>

\* a list, tagged likewise
ListOf(items) == <<"list", items>>

\* the value a tagged result carries
value(r) == Head(Tail(r))

\* the stopword file does not exist
Missing == <<"missing">>

\* the stopword file exists and cannot be read or decoded
Unreadable == <<"unreadable">>

(***************************************************************************)
(* The parts of the state a specification does not use stay as they are    *)
(* before the application has touched them.                                *)
(***************************************************************************)
IdleHeaders ==
  /\ text = <<>>
  /\ title = Pending
  /\ author_block = Pending

IdleParser ==
  /\ _words = <<>>
  /\ fed = <<>>

IdleFrequency ==
  /\ arg_n = Pending
  /\ arg_stopwords = Pending
  /\ arg_top_k = Pending
  /\ full_counts = Pending
  /\ first_run = Pending

IdleStopwords ==
  /\ stopwords_file = Missing
  /\ stopword_set = Pending

\* the record of the latest click(): the ID it was run for, how it ended,
\* whether it fetched the text, whether it prompted for authors, and the
\* rows it displayed; NoRun before the first click
NoRun ==
  [gutID |-> None, outcome |-> "idle", fetched |-> FALSE,
   prompted |-> FALSE, shown |-> None]

\* the tables as ensure_tables_exist creates them
IdleDb ==
  /\ author = {}
  /\ author_id = Pending
  /\ wordFreqs = {}
  /\ last_gutID = Pending
  /\ last_top10 = Pending
  /\ book = {}
  /\ bookAuthors = {}
  /\ run = NoRun

(***************************************************************************)
(* extract_title                                                           *)
(***************************************************************************)
kw_title == <<"t", "i", "t", "l", "e", ":">>

\* faulty variant: keeps scanning, so that the last title line wins
RECURSIVE extract_title_last(_, _, _)
extract_title_last(lines, i, found) ==
  IF i > Len(lines) THEN found
  ELSE IF startswith(strip(lower(lines[i])), kw_title)
  THEN extract_title_last(lines, i + 1,
                          Str(strip(split_1_second(lines[i], ":"))))
  ELSE extract_title_last(lines, i + 1, found)

\* the for loop of extract_title over text.splitlines(), from line i on
RECURSIVE title_scan(_, _)
title_scan(lines, i) ==
  IF i > Len(lines) THEN None
  ELSE LET line == lines[i]
           low == strip(lower(line))
       IN IF startswith(low, kw_title)
          THEN Str(strip(split_1_second(line, ":")))
          ELSE title_scan(lines, i + 1)

\* faulty variant: the scan ends at the last title line
extract_title_keeps_last(t) == extract_title_last(splitlines(t), 1, None)

\* faulty variant: absence is reported as the empty title
extract_title_empty_for_absent(t) ==
  IF title_scan(splitlines(t), 1) = None
  THEN Str(<<>>)
  ELSE title_scan(splitlines(t), 1)

extract_title(t) == title_scan(splitlines(t), 1)

(***************************************************************************)
(* The regular expressions of extract_author_block.                        *)
(***************************************************************************)
kw_author == <<"a", "u", "t", "h", "o", "r", ":">>

letters ==
  {ascii_uppercase[i] : i \in 1..26} \cup {ascii_lowercase[i] : i \in 1..26}

\* a greedy character class: the first position from i on whose character
\* is outside chars, Len(s) + 1 when there is none
RECURSIVE skip_class(_, _, _)
skip_class(s, i, chars) ==
  IF i <= Len(s) /\ s[i] \in chars THEN skip_class(s, i + 1, chars) ELSE i

\* (?m)^ at position p of s
at_line_start(s, p) == p = 1 \/ s[p - 1] = "\n"

\* (?im)^[ \t]*author:\s*  tried at position p: the position after the
\* match, 0 when there is no match at p
match_author(s, p) ==
  LET k == skip_class(s, p, {" ", "\t"})
  IN IF at_line_start(s, p)
        /\ k + 6 <= Len(s)
        /\ lower(SubSeq(s, k, k + 6)) = kw_author
     THEN skip_class(s, k + 7, whitespace)
     ELSE 0

\* (?m)^[ \t]*[A-Za-z][A-Za-z \-]*:\s  tried at position p: the position
\* after the match, 0 when there is no match at p
match_header(s, p) ==
  LET k == skip_class(s, p, {" ", "\t"})
      j == skip_class(s, k + 1, letters \cup {" ", "-"})
  IN IF at_line_start(s, p)
        /\ k <= Len(s) /\ s[k] \in letters
        /\ j + 1 <= Len(s) /\ s[j] = ":" /\ s[j + 1] \in whitespace
     THEN j + 2
     ELSE 0

\* re.search with the author pattern: the first position from p on where it
\* matches, 0 when it matches nowhere
RECURSIVE search_author(_, _)
search_author(s, p) ==
  IF p > Len(s) + 1 THEN 0
  ELSE IF match_author(s, p) # 0 THEN p
  ELSE search_author(s, p + 1)

\* re.search with the header pattern, likewise
RECURSIVE search_header(_, _)
search_header(s, p) ==
  IF p > Len(s) + 1 THEN 0
  ELSE IF match_header(s, p) # 0 THEN p
  ELSE search_header(s, p + 1)

\* text.find("\n\n", i) as a position; 0 when there is none
RECURSIVE find_blank(_, _)
find_blank(s, i) ==
  IF i + 1 > Len(s) THEN 0
  ELSE IF s[i] = "\n" /\ s[i + 1] = "\n" THEN i
  ELSE find_blank(s, i + 1)

(***************************************************************************)
(* extract_author_block                                                    *)
(***************************************************************************)
\* faulty variant: the blank line is looked for before the next header
author_block_blank_first(t) ==
  LET m_start == search_author(t, 1)
  IN IF m_start = 0 THEN None
     ELSE LET m_end == match_author(t, m_start)
              next_header == search_header(from_pos(t, m_end), 1)
              blank == find_blank(t, m_end)
          IN IF blank # 0
             THEN Str(rstrip(SubSeq(t, m_start, blank - 1)))
             ELSE IF next_header # 0
             THEN Str(rstrip(SubSeq(t, m_start, m_end + next_header - 2)))
             ELSE Str(rstrip(from_pos(t, m_start)))

\* faulty variant: the block ends after the header line instead of before it
author_block_keeps_header(t) ==
  LET m_start == search_author(t, 1)
  IN IF m_start = 0 THEN None
     ELSE LET m_end == match_author(t, m_start)
              rest == from_pos(t, m_end)
              next_header == search_header(rest, 1)
              blank == find_blank(t, m_end)
          IN IF next_header # 0
             THEN Str(rstrip(SubSeq(t, m_start,
                        m_end + match_header(rest, next_header) - 2)))
             ELSE IF blank # 0
             THEN Str(rstrip(SubSeq(t, m_start, blank - 1)))
             ELSE Str(rstrip(from_pos(t, m_start)))

\* faulty variant: without a header the blank line is ignored
author_block_no_blank_rule(t) ==
  LET m_start == search_author(t, 1)
  IN IF m_start = 0 THEN None
     ELSE LET m_end == match_author(t, m_start)
              next_header == search_header(from_pos(t, m_end), 1)
          IN IF next_header # 0
             THEN Str(rstrip(SubSeq(t, m_start, m_end + next_header - 2)))
             ELSE Str(rstrip(from_pos(t, m_start)))

\* m_start is m.start() + 1 = start_idx + 1, m_end is m.end() + 1,
\* next_header is next_header.start() + 1 and blank is blank + 1
extract_author_block(t) ==
  LET m_start == search_author(t, 1)
  IN IF m_start = 0 THEN None
     ELSE LET m_end == match_author(t, m_start)
              next_header == search_header(from_pos(t, m_end), 1)
              blank == find_blank(t, m_end)
          IN IF next_header # 0
             THEN Str(rstrip(SubSeq(t, m_start, m_end + next_header - 2)))
             ELSE IF blank # 0
             THEN Str(rstrip(SubSeq(t, m_start, blank - 1)))
             ELSE Str(rstrip(from_pos(t, m_start)))

(***************************************************************************)
(* The documents the extractors are run on: up to MaxTitleLines lines of   *)
(* TitleLines, or up to MaxAuthorLines lines of AuthorLines, joined by     *)
(* "\n" (a document whose last line is empty ends with a line break).      *)
(***************************************************************************)
TitleLines ==
  { <<"T", "i", "t", "l", "e", ":", " ", "A", " ", "b">>,
    <<" ", " ", "T", "I", "T", "L", "E", ":", "c", ":", "d", " ">>,
    <<"t", "i", "t", "l", "e", ":">>,
    <<"x", " ", "T", "i", "t", "l", "e", ":", " ", "e">>,
    <<"T", "i", "t", "l", "e", " ", ":", "f">>,
    <<>>,
    <<"b">> }

AuthorLines ==
  { <<"A", "u", "t", "h", "o", "r", ":", " ", "J", "o">>,
    <<"\t", "A", "U", "T", "H", "O", "R", ":">>,
    <<>>,
    <<"J", "o", " ", "D", "o">>,
    <<"D", "a", "t", "e", ":", " ", "x">>,
    <<"N", "o", "-", "t", "e", ":">>,
    <<"-", " ", "n", ":", " ", "y">>,
    <<"A", "u", "t", "h", "o", "r", ":", " ", "J", "o", ":", " ", "x">> }

RECURSIVE join_lines(_)
join_lines(ls) ==
  IF ls = <<>> THEN <<>>
  ELSE IF Len(ls) = 1 THEN ls[1]
  ELSE ls[1] \o <<"\n">> \o join_lines(Tail(ls))

DocumentsOf(lines, n) ==
  {join_lines(ls) : ls \in UNION {[1..k -> lines] : k \in 0..n}}

Documents ==
  DocumentsOf(TitleLines, MaxTitleLines)
    \cup DocumentsOf(AuthorLines, MaxAuthorLines)

(***************************************************************************)
(* SpecHeaders: the two extractors applied to one document.                *)
(***************************************************************************)
InitHeaders ==
  /\ text \in Documents
  /\ title = Pending
  /\ author_block = Pending
  /\ IdleParser
  /\ IdleFrequency
  /\ IdleStopwords
  /\ IdleDb

ExtractTitle ==
  /\ title = Pending
  /\ title' = extract_title(text)
  /\ UNCHANGED <<text, author_block, _words, fed>>
  /\ UNCHANGED <<frequency_vars, stopword_vars, db_vars>>

\* click calls extract_author_block after extract_title
ExtractAuthorBlock ==
  /\ title # Pending
  /\ author_block = Pending
  /\ author_block' = extract_author_block(text)
  /\ UNCHANGED <<text, title, _words, fed>>
  /\ UNCHANGED <<frequency_vars, stopword_vars, db_vars>>

NextHeaders == ExtractTitle \/ ExtractAuthorBlock

SpecHeaders == InitHeaders /\ [][NextHeaders]_vars

(***************************************************************************)
(* MyHTMLParser: _words is the instance's token list; fed is the sequence  *)
(* of the data arguments handle_data has been called with.                 *)
(***************************************************************************)
\* data.split(): the maximal runs of non-whitespace characters, in order
split(s) ==
  LET is_start(i) ==
        s[i] \notin whitespace /\ (i = 1 \/ s[i - 1] \in whitespace)
      is_end(i) ==
        s[i] \notin whitespace /\ (i = Len(s) \/ s[i + 1] \in whitespace)
      starts == SelectSeq([i \in 1..Len(s) |-> i], is_start)
      ends == SelectSeq([i \in 1..Len(s) |-> i], is_end)
  IN [k \in 1..Len(starts) |-> SubSeq(s, starts[k], ends[k])]

\* s.replace(c, "") for one character c
replace_with_empty(s, c) == SelectSeq(s, LAMBDA x : x # c)

\* s.isalpha()
isalpha(s) == s # <<>> /\ \A i \in 1..Len(s) : isalpha_char(s[i])

\* faulty variant: only trailing punctuation is stripped
cleaned_rstrip_only(token) == rstrip_chars(token, string_punctuation)

\* cleaned = token.strip(string.punctuation)
cleaned(token) == strip_chars(token, string_punctuation)

\* faulty variant: the token is appended as it was written, not lower-cased
handle_token_keeps_case(ws, token) ==
  IF cleaned(token) = <<>> THEN ws
  ELSE IF \E i \in 1..Len(cleaned(token)) : isdigit(cleaned(token)[i]) THEN ws
  ELSE IF isalpha(replace_with_empty(
                    replace_with_empty(cleaned(token), "-"), "'"))
  THEN Append(ws, cleaned(token))
  ELSE ws

\* faulty variant: the alphabetic test is dropped, only digits reject a token
handle_token_digits_only(ws, token) ==
  IF cleaned(token) = <<>> THEN ws
  ELSE IF \E i \in 1..Len(cleaned(token)) : isdigit(cleaned(token)[i]) THEN ws
  ELSE Append(ws, lower(cleaned(token)))

\* faulty variant: a word the list already holds is not appended again
handle_token_skips_seen(ws, token) ==
  LET c == cleaned(token)
  IN IF c = <<>> THEN ws
     ELSE IF \E i \in 1..Len(c) : isdigit(c[i]) THEN ws
     ELSE IF ~isalpha(replace_with_empty(replace_with_empty(c, "-"), "'"))
     THEN ws
     ELSE IF \E i \in 1..Len(ws) : ws[i] = lower(c) THEN ws
     ELSE Append(ws, lower(c))

\* the body of the for loop of handle_data: _words after one token
handle_token(ws, token) ==
  LET c == cleaned(token)
  IN IF c = <<>> THEN ws
     ELSE IF \E i \in 1..Len(c) : isdigit(c[i]) THEN ws
     ELSE LET alphabetic ==
                isalpha(replace_with_empty(replace_with_empty(c, "-"), "'"))
          IN IF alphabetic THEN Append(ws, lower(c)) ELSE ws

\* the for loop of handle_data over the tokens lo..hi: the first half of
\* them, then the second (the list after the first half is evaluated
\* before the second half is begun, which keeps the evaluation shallow)
RECURSIVE handle_range(_, _, _, _)
handle_range(ws, tokens, lo, hi) ==
  IF lo > hi THEN ws
  ELSE IF lo = hi THEN handle_token(ws, tokens[lo])
  ELSE LET mid == (lo + hi) \div 2
           half == handle_range(ws, tokens, lo, mid)
       IN CASE Len(half) >= 0 -> handle_range(half, tokens, mid + 1, hi)

\* the for loop of handle_data over the tokens from index i on
handle_tokens(ws, tokens, i) == handle_range(ws, tokens, i, Len(tokens))

\* faulty variant: a chunk's tokens are put in front of the accumulated ones
handle_data_prepends(ws, data) == handle_tokens(<<>>, split(data), 1) \o ws

\* _words after handle_data(data), when it was ws before
handle_data(ws, data) == handle_tokens(ws, split(data), 1)

\* faulty variant: _words is a class attribute, one list for all instances
MyHTMLParser_shares_words(earlier) == earlier

\* MyHTMLParser(): __init__ gives the new instance an empty list of its own,
\* whatever the lists of earlier instances hold
MyHTMLParser(earlier) == <<>>

\* parser.feed(data) for text without markup ("<") and character
\* references ("&"): HTMLParser hands the whole text to handle_data at
\* once, and makes no call for the empty text
feed(ws, data) == IF data = <<>> THEN ws ELSE handle_data(ws, data)

(***************************************************************************)
(* The chunks handle_data is called with: up to MaxFedTokens raw tokens of *)
(* RawTokens in all, over any number of calls; the raw tokens of one chunk *)
(* are separated by a space or by a line break and a tab, and a chunk of   *)
(* several tokens ends with a line break.  The empty chunk counts as one.  *)
(***************************************************************************)
RawTokens ==
  { <<"W", "e", "l", "l", "-", "k", "n", "o", "w", "n", ",">>,
    <<"d", "o", "n", "'", "t">>,
    <<"3", "r", "d">>,
    <<"c", "+", "+">>,
    <<"-", "-", "-">>,
    <<"(", "T", "h", "e", ")">>,
    <<"x", "+", "y">> }

RECURSIVE join_tokens(_, _)
join_tokens(ts, i) ==
  IF i > Len(ts) THEN <<>>
  ELSE IF i = Len(ts) THEN ts[i] \o (IF i > 1 THEN <<"\n">> ELSE <<>>)
  ELSE ts[i] \o (IF i % 2 = 1 THEN <<" ">> ELSE <<"\n", "\t">>)
         \o join_tokens(ts, i + 1)

ChunksOf(n) == {join_tokens(ts, 1) : ts \in [1..n -> RawTokens]}

\* what a chunk counts for against MaxFedTokens
Units(data) == IF Len(split(data)) = 0 THEN 1 ELSE Len(split(data))

RECURSIVE TotalUnits(_)
TotalUnits(chunks) ==
  IF chunks = <<>> THEN 0 ELSE Units(Head(chunks)) + TotalUnits(Tail(chunks))

(***************************************************************************)
(* SpecTokens: handle_data called on a fresh parser, chunk after chunk.    *)
(***************************************************************************)
InitTokens ==
  /\ IdleHeaders
  /\ IdleParser
  /\ IdleFrequency
  /\ IdleStopwords
  /\ IdleDb

HandleData ==
  \E n \in 0..(MaxFedTokens - TotalUnits(fed)) :
    \E data \in ChunksOf(n) :
      /\ TotalUnits(fed) + Units(data) <= MaxFedTokens
      /\ _words' = handle_data(_words, data)
      /\ fed' = Append(fed, data)
      /\ UNCHANGED <<header_vars, frequency_vars, stopword_vars, db_vars>>

NextTokens == HandleData

SpecTokens == InitTokens /\ [][NextTokens]_vars

(***************************************************************************)
(* Vocabulary of the claims about the extractors, stated on positions of   *)
(* the document rather than by running the code's loops.                   *)
(***************************************************************************)
Min(S) == LET T == S IN CHOOSE x \in T : \A y \in T : x <= y

Max(S) == LET T == S IN CHOOSE x \in T : \A y \in T : x >= y

\* the positions at which a line of t begins
LineStarts(t) == {p \in 1..Len(t) : p = 1 \/ t[p - 1] = "\n"}

\* the line of t that begins at p, without its line break
LineAt(t, p) ==
  SubSeq(t, p, Min({q \in p..(Len(t) + 1) : q = Len(t) + 1 \/ t[q] = "\n"}) - 1)

\* s without its leading and trailing whitespace
Trim(s) ==
  LET keep == {i \in 1..Len(s) : s[i] \notin whitespace}
  IN IF keep = {} THEN <<>> ELSE SubSeq(s, Min(keep), Max(keep))

\* s without its trailing whitespace
TrimRight(s) ==
  LET keep == {i \in 1..Len(s) : s[i] \notin whitespace}
  IN IF keep = {} THEN <<>> ELSE SubSeq(s, 1, Max(keep))

\* kw, in any case, stands at position k of s
KeywordAt(s, k, kw) ==
  /\ k + Len(kw) - 1 <= Len(s)
  /\ \A j \in 1..Len(kw) : lower_char(s[k + j - 1]) = kw[j]

\* line l, whitespace-trimmed and lower-cased, starts with "title:"
IsTitleLine(l) ==
  \E k \in 1..Len(l) :
    (\A i \in 1..(k - 1) : l[i] \in whitespace) /\ KeywordAt(l, k, kw_title)

TitleLineStarts(t) == {p \in LineStarts(t) : IsTitleLine(LineAt(t, p))}

\* the part of l after its first colon
AfterFirstColon(l) ==
  SubSeq(l, Min({i \in 1..Len(l) : l[i] = ":"}) + 1, Len(l))

\* line l begins, after spaces and tabs only, with "author:" in any case
IsAuthorFieldLine(l) ==
  \E k \in 1..Len(l) :
    (\A i \in 1..(k - 1) : l[i] \in {" ", "\t"}) /\ KeywordAt(l, k, kw_author)

\* the line starts of t where an author field stands
AuthorFieldStarts(t) == {p \in LineStarts(t) : IsAuthorFieldLine(LineAt(t, p))}

\* the first author field: where its line starts, where its colon is, and
\* where the author match ends (the first position after the colon that
\* holds no whitespace)
AuthorStart(t) == Min(AuthorFieldStarts(t))

AuthorColon(t) ==
  LET a == AuthorStart(t) IN Min({c \in a..Len(t) : t[c] = ":"})

AuthorMatchEnd(t) ==
  LET c == AuthorColon(t)
  IN Min({q \in (c + 1)..(Len(t) + 1) :
            q = Len(t) + 1 \/ t[q] \notin whitespace})

\* line l (up to its line break, if it has one) begins with a
\* metadata-style header: optional indentation, a name of letters, spaces
\* and hyphens that begins with a letter, a colon, and a whitespace
\* character, which may be the line break
IsHeaderLine(l, has_break) ==
  \E c \in 2..Len(l) :
    /\ l[c] = ":"
    /\ IF c < Len(l) THEN l[c + 1] \in whitespace ELSE has_break
    /\ \E k \in 1..(c - 1) :
         /\ \A i \in 1..(k - 1) : l[i] \in {" ", "\t"}
         /\ l[k] \in letters
         /\ \A i \in (k + 1)..(c - 1) : l[i] \in letters \cup {" ", "-"}

\* the header lines of the text after the author match; that text begins
\* at AuthorMatchEnd, which counts as the start of its first line
HeaderStartsAfterAuthor(t) ==
  LET e == AuthorMatchEnd(t)
  IN {h \in e..Len(t) :
        /\ h = e \/ t[h - 1] = "\n"
        /\ LET l == LineAt(t, h)
           IN IsHeaderLine(l, h + Len(l) <= Len(t))}

\* the blank lines (two consecutive line breaks) after the author match
BlanksAfterAuthor(t) ==
  LET e == AuthorMatchEnd(t)
  IN {b \in e..(Len(t) - 1) : t[b] = "\n" /\ t[b + 1] = "\n"}

\* extract_author_block has run on a document with an author field
AuthorBlockTaken == author_block # Pending /\ AuthorFieldStarts(text) # {}

\* the text from the start of the author field's line up to position e - 1
BlockUpTo(e) == Str(TrimRight(SubSeq(text, AuthorStart(text), e - 1)))

(***************************************************************************)
(* C1..C6: the header extractors (SpecHeaders).                            *)
(***************************************************************************)

\* C1: extract_title returns, for the FIRST line whose trimmed, lower-cased
\* form starts with "title:", the part of that line after its first colon,
\* whitespace-trimmed; later title lines have no influence.
C1_TitleOfFirstTitleLine ==
  (title # Pending /\ TitleLineStarts(text) # {}) =>
    title = Str(Trim(AfterFirstColon(
                  LineAt(text, Min(TitleLineStarts(text))))))

\* C1's case: two title lines with different non-empty values; the first won
C1_Witness ==
  /\ title # Pending
  /\ \E p, q \in TitleLineStarts(text) :
       /\ p < q
       /\ p = Min(TitleLineStarts(text))
       /\ Trim(AfterFirstColon(LineAt(text, p))) # <<>>
       /\ Trim(AfterFirstColon(LineAt(text, q))) # <<>>
       /\ Trim(AfterFirstColon(LineAt(text, p)))
            # Trim(AfterFirstColon(LineAt(text, q)))
       /\ title = Str(Trim(AfterFirstColon(LineAt(text, p))))

\* C2: absence of a header field is the normal value None: extract_title
\* returns None when no line (trimmed, any case) starts with "title:", and
\* extract_author_block returns None when "author:" (any case) occurs at no
\* line start (after optional spaces and tabs).
C2_AbsentFieldIsNone ==
  /\ (title # Pending /\ TitleLineStarts(text) = {}) => title = None
  /\ (author_block # Pending /\ AuthorFieldStarts(text) = {})
       => author_block = None

\* C2's case: both extractors ran on a non-empty document that has neither
\* field, although it holds the word "Title"
C2_Witness ==
  /\ title = None
  /\ author_block = None
  /\ \E k \in 1..Len(text) :
       KeywordAt(text, k, <<"t", "i", "t", "l", "e">>)

C4_BlankLineEndsBlockBeforeHeader ==
  (/\ AuthorBlockTaken
   /\ HeaderStartsAfterAuthor(text) # {}
   /\ BlanksAfterAuthor(text) # {}
   /\ Min(BlanksAfterAuthor(text)) < Min(HeaderStartsAfterAuthor(text)))
  => author_block = BlockUpTo(Min(BlanksAfterAuthor(text)))

\* C4 amended: when a blank line comes before the next header line, the
\* block still ends immediately before that header: every non-whitespace
\* character between the blank line and the header is inside the block, and
\* the block reaches no further than the header.
C4_HeaderRuleWinsOverEarlierBlank ==
  (/\ AuthorBlockTaken
   /\ HeaderStartsAfterAuthor(text) # {}
   /\ BlanksAfterAuthor(text) # {}
   /\ Min(BlanksAfterAuthor(text)) < Min(HeaderStartsAfterAuthor(text)))
  => LET b == Min(BlanksAfterAuthor(text))
         h == Min(HeaderStartsAfterAuthor(text))
         last == AuthorStart(text) + Len(author_block[2]) - 1
     IN /\ IsStr(author_block)
        /\ author_block[2] = SubSeq(text, AuthorStart(text), last)
        /\ last < h
        /\ \A i \in b..(h - 1) : text[i] \notin whitespace => i <= last

\* C4's case: text lies between the earlier blank line and the later header,
\* and the block holds it
C4_Witness ==
  /\ AuthorBlockTaken
  /\ HeaderStartsAfterAuthor(text) # {}
  /\ BlanksAfterAuthor(text) # {}
  /\ LET b == Min(BlanksAfterAuthor(text))
         h == Min(HeaderStartsAfterAuthor(text))
     IN /\ b < h
        /\ \E i \in b..(h - 1) :
             /\ text[i] \notin whitespace
             /\ i <= AuthorStart(text) + Len(author_block[2]) - 1

C5_WitnessNoBlank ==
  /\ AuthorBlockTaken
  /\ HeaderStartsAfterAuthor(text) = {}
  /\ BlanksAfterAuthor(text) = {}
  /\ \E i \in 1..Len(author_block[2]) : author_block[2][i] = "\n"

\* C6: every non-None result of extract_author_block begins with the field
\* name "author:" (any case), also when the author line is indented.
C6_BlockBeginsWithFieldName ==
  (author_block # Pending /\ author_block # None) =>
    KeywordAt(author_block[2], 1, kw_author)

(***************************************************************************)
(* Vocabulary of the claims about the tokenizer.                           *)
(***************************************************************************)
\* where the whitespace-separated candidates (raw tokens) of chunk d begin
CandidateStarts(d) ==
  {p \in 1..Len(d) :
     d[p] \notin whitespace /\ (p = 1 \/ d[p - 1] \in whitespace)}

\* the candidate of d that begins at p
CandidateAt(d, p) ==
  SubSeq(d, p, Max({q \in p..Len(d) : \A i \in p..q : d[i] \notin whitespace}))

\* raw token r between its first and its last character that is no
\* punctuation; empty when r is all punctuation
Core(r) ==
  LET keep == {i \in 1..Len(r) : r[i] \notin string_punctuation}
  IN IF keep = {} THEN <<>> ELSE SubSeq(r, Min(keep), Max(keep))

HasDigit(s) == \E i \in 1..Len(s) : s[i] \in digits

\* s is purely alphabetic once its hyphens and apostrophes are removed
AlphabeticButHyphensApostrophes(s) ==
  /\ \E i \in 1..Len(s) : s[i] \in letters
  /\ \A i \in 1..Len(s) : s[i] \in letters \cup {"-", "'"}

\* s with its upper-case letters replaced by their lower-case letters
LowerCased(s) == [i \in 1..Len(s) |-> lower_char(s[i])]

\* the cleaner rejects raw token r, going by its punctuation-stripped form
RejectedStripped(r) ==
  HasDigit(Core(r)) \/ ~AlphabeticButHyphensApostrophes(Core(r))

\* the tokens chunk d is to contribute: its surviving candidates, cleaned,
\* in the order of the candidate starts in S
RECURSIVE ExpectedOfChunk(_, _)
ExpectedOfChunk(d, S) ==
  IF S = {} THEN <<>>
  ELSE LET r == CandidateAt(d, Min(S))
       IN (IF RejectedStripped(r) THEN <<>> ELSE <<LowerCased(Core(r))>>)
            \o ExpectedOfChunk(d, S \ {Min(S)})

RECURSIVE ExpectedTokens(_)
ExpectedTokens(chunks) ==
  IF chunks = <<>> THEN <<>>
  ELSE ExpectedOfChunk(Head(chunks), CandidateStarts(Head(chunks)))
         \o ExpectedTokens(Tail(chunks))

\* all the raw candidates fed so far
FedCandidates ==
  UNION {{CandidateAt(fed[i], p) : p \in CandidateStarts(fed[i])} :
           i \in 1..Len(fed)}

IsPrefix(s, t) == Len(s) <= Len(t) /\ SubSeq(t, 1, Len(s)) = s

raw_well_known == <<"W", "e", "l", "l", "-", "k", "n", "o", "w", "n", ",">>

raw_dont == <<"d", "o", "n", "'", "t">>

raw_3rd == <<"3", "r", "d">>

raw_cpp == <<"c", "+", "+">>

raw_dashes == <<"-", "-", "-">>

(***************************************************************************)
(* C7..C10: the tokenizer (SpecTokens).                                    *)
(***************************************************************************)

\* C7: after any sequence of handle_data calls every token of the list is
\* non-empty, lower-case, free of digits, has no leading or trailing
\* punctuation, and consists of letters plus internal hyphens and
\* apostrophes only.
C7_TokensAreValid ==
  \A k \in 1..Len(_words) :
    LET w == _words[k]
    IN /\ w # <<>>
       /\ \A i \in 1..Len(w) : ~isupper(w[i]) /\ w[i] \notin digits
       /\ w[1] \notin string_punctuation
       /\ w[Len(w)] \notin string_punctuation
       /\ \A i \in 1..Len(w) :
            w[i] \in {ascii_lowercase[j] : j \in 1..26} \cup {"-", "'"}

\* C7's case: several calls have left a token with a hyphen and one with an
\* apostrophe, from candidates written with capitals and punctuation
C7_Witness ==
  /\ Len(fed) >= 2
  /\ \E k \in 1..Len(_words) : \E i \in 1..Len(_words[k]) : _words[k][i] = "-"
  /\ \E k \in 1..Len(_words) : \E i \in 1..Len(_words[k]) : _words[k][i] = "'"
  /\ raw_well_known \in FedCandidates

\* C8 as claimed: a raw token whose stripped form has a digit or is not
\* alphabetic apart from hyphens and apostrophes emits nothing, and "3rd"
\* and "c++" are both rejected.
C8_RejectsDigitsAndNonAlphabeticInclCpp ==
  /\ (\A r \in FedCandidates : RejectedStripped(r)) => _words = <<>>
  /\ (\A r \in FedCandidates : r \in {raw_3rd, raw_cpp}) => _words = <<>>

\* C8 amended: a raw token whose punctuation-stripped form has a digit or
\* is not alphabetic apart from hyphens and apostrophes emits nothing, and
\* "3rd" is rejected; "c++" is not: it is stripped to "c" and emitted.
C8_RejectsDigitsAndNonAlphabetic ==
  /\ (\A r \in FedCandidates : RejectedStripped(r)) => _words = <<>>
  /\ (\A r \in FedCandidates : r = raw_3rd) => _words = <<>>
  /\ (\A i \in 1..Len(fed) : fed[i] = raw_cpp) =>
        /\ Len(_words) = Len(fed)
        /\ \A k \in 1..Len(_words) : _words[k] = <<"c">>

\* C8's case: "3rd" and a token with punctuation inside ("x+y") were fed in
\* separate calls and nothing was emitted
C8_Witness ==
  /\ Len(fed) >= 2
  /\ raw_3rd \in FedCandidates
  /\ <<"x", "+", "y">> \in FedCandidates
  /\ _words = <<>>

\* C9: a call with one raw token strips its leading and trailing punctuation
\* and lower-cases the rest: a word with internal hyphens or apostrophes is
\* appended unchanged apart from case ("Well-known," gives "well-known",
\* "don't" gives "don't"); an empty or all-punctuation token ("---", "")
\* appends nothing.
C9_StripsPunctuationAndLowercases ==
  [][(/\ Len(fed') = Len(fed) + 1
      /\ Cardinality(CandidateStarts(fed'[Len(fed')])) <= 1)
     => LET d == fed'[Len(fed')]
            r == IF CandidateStarts(d) = {} THEN <<>>
                 ELSE CandidateAt(d, Min(CandidateStarts(d)))
        IN /\ (\A i \in 1..Len(r) : r[i] \in string_punctuation)
                => _words' = _words
           /\ (/\ Core(r) # <<>>
               /\ \A i \in 1..Len(Core(r)) :
                    Core(r)[i] \in letters \cup {"-", "'"})
                => _words' = Append(_words, LowerCased(Core(r)))
           /\ r = raw_well_known
                => _words' = Append(_words,
                     <<"w", "e", "l", "l", "-", "k", "n", "o", "w", "n">>)
           /\ r = raw_dont => _words' = Append(_words, raw_dont)
           /\ r \in {raw_dashes, <<>>} => _words' = _words
    ]_vars

\* C9's case: "Well-known,", "---" and "(The)" were fed one per call
C9_Witness ==
  /\ fed = <<raw_well_known, raw_dashes, <<"(", "T", "h", "e", ")">> >>
  /\ _words = << <<"w", "e", "l", "l", "-", "k", "n", "o", "w", "n">>,
                <<"t", "h", "e">> >>

\* C10: after any sequence of handle_data calls the token list is the
\* concatenation, in call order, of each chunk's surviving candidates in
\* their left-to-right order, and a call only appends to the list.
C10_TokensInCallOrder ==
  /\ [](_words = ExpectedTokens(fed))
  /\ [][IsPrefix(_words, _words')]_vars

\* C10's case: two or more calls, distinct tokens accumulated across them,
\* and a rejected candidate among the fed ones
C10_Witness ==
  /\ Len(fed) >= 2
  /\ Len(_words) >= 2
  /\ _words[1] # _words[2]
  /\ Len(ExpectedTokens(<<fed[1]>>)) = 1
  /\ \E r \in FedCandidates : RejectedStripped(r)

\* C11 (as stated): the token sequence obtained for a text does not depend
\* on any earlier tokenization: after the same text has been fed a second
\* time the parser's token sequence is the same as after the first time.
C11_SecondFeedYieldsSameSequence ==
  [][(Len(fed) = 1 /\ fed' = <<fed[1], fed[1]>>) => _words' = _words]_vars

\* C11 (amended): what handle_data appends depends only on the text: every
\* call appends, after the tokens accumulated before, exactly the sequence
\* a newly constructed parser yields for that text; so feeding the same
\* text a second time to the same parser leaves the first sequence twice.
C11_FeedAppendsWhatNewParserYields ==
  [][fed' # fed =>
       /\ _words' = _words \o handle_data(MyHTMLParser(_words), fed'[Len(fed')])
       /\ (Len(fed) = 1 /\ fed'[2] = fed[1]) => _words' = _words \o _words
    ]_vars

\* C11's case: the same text fed twice to one parser, with tokens in it
C11_Witness ==
  /\ fed = <<raw_dont, raw_dont>>
  /\ _words = <<raw_dont, raw_dont>>

(***************************************************************************)
(* MyHTMLParser.frequency.  A dict is the sequence of its items            *)
(* <<word, count>> in iteration order, which is insertion order.           *)
(***************************************************************************)
\* Counter counts one more word: a word seen for the first time is
\* inserted at the end, a word seen again keeps its place
count_word(items, w) ==
  LET seen == {k \in 1..Len(items) : items[k][1] = w}
  IN IF seen = {} THEN Append(items, <<w, 1>>)
     ELSE LET k == CHOOSE x \in seen : TRUE
          IN SubSeq(items, 1, k - 1) \o << <<w, items[k][2] + 1>> >> \o
             SubSeq(items, k + 1, Len(items))

\* Counter(self._words), counting the words lo..hi: the first half of
\* them, then the second (the items after the first half are evaluated
\* before the second half is begun, which keeps the evaluation shallow)
RECURSIVE Counter_range(_, _, _, _)
Counter_range(ws, lo, hi, items) ==
  IF lo > hi THEN items
  ELSE IF lo = hi THEN count_word(items, ws[lo])
  ELSE LET mid == (lo + hi) \div 2
           half == Counter_range(ws, lo, mid, items)
       IN CASE Len(half) >= 0 -> Counter_range(ws, mid + 1, hi, half)

\* Counter(self._words), counting from index i on
Counter_from(ws, i, items) == Counter_range(ws, i, Len(ws), items)

Counter(ws) == Counter_from(ws, 1, <<>>)

\* faulty variant: the threshold is exclusive
filtered_above_threshold(items, n, stopwords) ==
  LET keep(item) == item[2] > n /\ item[1] \notin stopwords
  IN SelectSeq(items, keep)

\* faulty variant: the stopwords are not taken out
filtered_keeps_stopwords(items, n, stopwords) ==
  LET keep(item) == item[2] >= n
  IN SelectSeq(items, keep)

\* {w: c for w, c in counts.items() if c >= n and w not in stopwords}
filtered(items, n, stopwords) ==
  LET keep(item) == item[2] >= n /\ item[1] \notin stopwords
  IN SelectSeq(items, keep)

\* faulty variant: an item goes before the items of equal count, as when
\* the list is sorted ascending and then reversed
insert_before_equal(out, item) ==
  LET p == Cardinality({k \in 1..Len(out) : out[k][2] > item[2]})
  IN SubSeq(out, 1, p) \o <<item>> \o SubSeq(out, p + 1, Len(out))

\* one step of the stable sort by descending count: the item goes after
\* every item of out whose count is not lower
insert_by_count(out, item) ==
  LET p == Cardinality({k \in 1..Len(out) : out[k][2] >= item[2]})
  IN SubSeq(out, 1, p) \o <<item>> \o SubSeq(out, p + 1, Len(out))

RECURSIVE sorted_from(_, _, _)
sorted_from(items, i, out) ==
  IF i > Len(items) THEN out
  ELSE sorted_from(items, i + 1, insert_by_count(out, items[i]))

\* faulty variant: the items are not sorted before they are cut
sorted_by_count_left_unsorted(items) == items

\* sorted(filtered.items(), key=lambda x: x[1], reverse=True)
sorted_by_count(items) == sorted_from(items, 1, <<>>)

\* top_items[:top_k]; a negative top_k counts from the end
slice_to(items, top_k) ==
  IF top_k >= Len(items) THEN items
  ELSE IF top_k >= 0 THEN SubSeq(items, 1, top_k)
  ELSE IF Len(items) + top_k > 0 THEN SubSeq(items, 1, Len(items) + top_k)
  ELSE <<>>

\* frequency(self, n, stopwords=None, top_k=None) on the token list ws
frequency(ws, n, stopwords, top_k) ==
  LET stops == IF stopwords = None THEN {} ELSE value(stopwords)
      counts == Counter(ws)
      kept == filtered(counts, value(n), stops)
  IN IF top_k # None /\ value(top_k) # 0
     THEN DictOf(slice_to(sorted_by_count(kept), value(top_k)))
     ELSE DictOf(kept)

(***************************************************************************)
(* SpecFrequency: a parser is fed one text of up to MaxWords words, then   *)
(* frequency is called on it with any arguments; it may also be called on  *)
(* a parser that was fed nothing.                                          *)
(***************************************************************************)
cat == <<"c", "a", "t">>

dog == <<"d", "o", "g">>

the == <<"t", "h", "e">>

Words == {cat, dog, the}

RECURSIVE join_words(_)
join_words(ws) ==
  IF ws = <<>> THEN <<>>
  ELSE IF Len(ws) = 1 THEN ws[1]
  ELSE ws[1] \o <<" ">> \o join_words(Tail(ws))

WordTexts == {join_words(ws) : ws \in UNION {[1..k -> Words] : k \in 0..MaxWords}}

StopwordArgs == {None, SetOf({}), SetOf({the}), SetOf({cat, the})}

TopKArgs == {None} \cup {IntOf(k) : k \in -1..MaxTopK}

InitFrequency ==
  /\ IdleHeaders
  /\ IdleParser
  /\ IdleFrequency
  /\ IdleStopwords
  /\ IdleDb

\* parser.feed(text), once, before frequency is called (as in click)
FeedText ==
  \E data \in WordTexts :
    /\ fed = <<>>
    /\ full_counts = Pending
    /\ _words' = feed(_words, data)
    /\ fed' = <<data>>
    /\ UNCHANGED <<header_vars, frequency_vars, stopword_vars, db_vars>>

\* parser.frequency(n, stopwords, top_k)
Frequency ==
  \E n \in 0..MaxN, stopwords \in StopwordArgs, top_k \in TopKArgs :
    /\ full_counts = Pending
    /\ arg_n' = IntOf(n)
    /\ arg_stopwords' = stopwords
    /\ arg_top_k' = top_k
    /\ full_counts' = frequency(_words, IntOf(n), stopwords, top_k)
    /\ UNCHANGED <<header_vars, parser_vars, first_run, stopword_vars, db_vars>>

NextFrequency == FeedText \/ Frequency

SpecFrequency == InitFrequency /\ [][NextFrequency]_vars

(***************************************************************************)
(* SpecPipeline: click's text processing run twice over one document: the  *)
(* title, the author block, a new parser fed the lower-cased text, and     *)
(* frequency.  The second run is given the arguments of the first;         *)
(* first_run keeps what the first run produced.                            *)
(***************************************************************************)
PipelineLines ==
  { <<"T", "i", "t", "l", "e", ":", " ", "T", "h", "e", " ", "C", "a", "t">>,
    <<"A", "u", "t", "h", "o", "r", ":", " ", "J", "o">>,
    <<"t", "h", "e", " ", "c", "a", "t", ",", " ", "T", "h", "e", " ",
      "D", "o", "g", ".">>,
    <<>> }

PipelineDocuments == DocumentsOf(PipelineLines, MaxPipelineLines)

\* n, stopwords and top_k of a run; the last is click's own call
PipelineArgs ==
  { <<IntOf(1), None, None>>,
    <<IntOf(2), SetOf({the}), None>>,
    <<IntOf(1), SetOf({the}), IntOf(2)>>,
    <<IntOf(5), SetOf({}), None>> }

InitPipeline ==
  /\ text \in PipelineDocuments
  /\ title = Pending
  /\ author_block = Pending
  /\ IdleParser
  /\ IdleFrequency
  /\ IdleStopwords
  /\ IdleDb

\* parser = MyHTMLParser(); parser.feed(text.lower())
ParseText ==
  /\ author_block # Pending
  /\ fed = <<>>
  /\ _words' = feed(MyHTMLParser(_words), lower(text))
  /\ fed' = <<lower(text)>>
  /\ UNCHANGED <<header_vars, frequency_vars, stopword_vars, db_vars>>

\* full_counts = parser.frequency(n, stopwords=stopwords, top_k=top_k)
CountWords ==
  \E args \in PipelineArgs :
    /\ fed # <<>>
    /\ full_counts = Pending
    /\ first_run # Pending => args = <<arg_n, arg_stopwords, arg_top_k>>
    /\ arg_n' = args[1]
    /\ arg_stopwords' = args[2]
    /\ arg_top_k' = args[3]
    /\ full_counts' = frequency(_words, args[1], args[2], args[3])
    /\ UNCHANGED <<header_vars, parser_vars, first_run, stopword_vars, db_vars>>

\* the same document is processed again; the first parser's list is left
\* as it is
RunAgain ==
  /\ full_counts # Pending
  /\ first_run = Pending
  /\ first_run' = <<title, author_block, full_counts>>
  /\ title' = Pending
  /\ author_block' = Pending
  /\ fed' = <<>>
  /\ full_counts' = Pending
  /\ UNCHANGED <<text, _words, arg_n, arg_stopwords, arg_top_k>>
  /\ UNCHANGED <<stopword_vars, db_vars>>

NextPipeline ==
  ExtractTitle \/ ExtractAuthorBlock \/ ParseText \/ CountWords \/ RunAgain

SpecPipeline == InitPipeline /\ [][NextPipeline]_vars

Called == full_counts # Pending

\* the items of the returned table, in iteration order, and its keys
Table == value(full_counts)

Keys == {Table[i][1] : i \in 1..Len(Table)}

\* no key occurs twice in the table
KeysUnique == Cardinality(Keys) = Len(Table)

\* how often w occurs among the accumulated tokens, and where it first does
Occurrences(w) == Cardinality({i \in 1..Len(_words) : _words[i] = w})

FirstAppearance(w) == Min({i \in 1..Len(_words) : _words[i] = w})

\* the stopwords of the call; None stands for no stopwords
StopwordsOfCall == IF arg_stopwords = None THEN {} ELSE value(arg_stopwords)

\* the accumulated words that pass the threshold and the stopword filter
Survivors ==
  {w \in {_words[i] : i \in 1..Len(_words)} :
     Occurrences(w) >= value(arg_n) /\ w \notin StopwordsOfCall}

\* top_k was given and is positive
PositiveTopK == arg_top_k # None /\ value(arg_top_k) > 0

(***************************************************************************)
(* C13..C17: frequency (SpecFrequency).                                    *)
(***************************************************************************)
\* C13: with top_k absent the table holds, once each, exactly the words
\* whose number of occurrences is >= n and that are not stopwords, each
\* with its number of occurrences; stopwords=None excludes nothing.
C13_ExactlyTheSurvivorsWithCounts ==
  (Called /\ arg_top_k = None) =>
    /\ KeysUnique
    /\ Keys = Survivors
    /\ \A i \in 1..Len(Table) : Table[i][2] = Occurrences(Table[i][1])

\* C13's case: tokens the, the, dog with n = 1 and stopwords {the}: the
\* stopword is left out although it occurs most, and dog, whose count
\* equals n, is kept
C13_Witness ==
  /\ _words = <<the, the, dog>>
  /\ arg_n = IntOf(1)
  /\ arg_stopwords = SetOf({the})
  /\ arg_top_k = None
  /\ full_counts = DictOf(<< <<dog, 1>> >>)

\* C14: with a positive top_k the table has at most top_k entries, each a
\* word that passes both filters with its number of occurrences, and no
\* word that passes the filters and is left out occurs more often than a
\* word that is kept.
C14_AtMostTopKHighest ==
  (Called /\ PositiveTopK) =>
    /\ Len(Table) <= value(arg_top_k)
    /\ KeysUnique
    /\ \A i \in 1..Len(Table) :
         /\ Table[i][1] \in Survivors
         /\ Table[i][2] = Occurrences(Table[i][1])
    /\ \A w \in Survivors \ Keys :
         \A i \in 1..Len(Table) : Occurrences(w) <= Table[i][2]

\* C14's case: tokens cat, dog, cat, cat, dog with n = 2 and top_k = 1
\* give {cat: 3}; dog passes the threshold and is cut by top_k
C14_Witness ==
  /\ _words = <<cat, dog, cat, cat, dog>>
  /\ arg_n = IntOf(2)
  /\ arg_stopwords = SetOf({})
  /\ arg_top_k = IntOf(1)
  /\ full_counts = DictOf(<< <<cat, 3>> >>)

\* C15: with a positive top_k the table is in descending order of count,
\* words of equal count stand in the order of their first appearance among
\* the tokens, and of two words of equal count of which one is kept and
\* one cut, the kept one appeared first.
C15_DescendingTiesByFirstAppearance ==
  (Called /\ PositiveTopK) =>
    /\ \A i, j \in 1..Len(Table) :
         i < j =>
           /\ Table[i][2] >= Table[j][2]
           /\ Table[i][2] = Table[j][2] =>
                FirstAppearance(Table[i][1]) < FirstAppearance(Table[j][1])
    /\ \A w \in Survivors \ Keys :
         \A i \in 1..Len(Table) :
           Occurrences(w) = Table[i][2] =>
             FirstAppearance(Table[i][1]) < FirstAppearance(w)

\* C15's case: tokens the, dog, cat, cat with top_k = 2: cat comes first
\* with 2, and of the and dog (1 each) the is kept because it appeared
\* first, although dog precedes it in the alphabet
C15_Witness ==
  /\ _words = <<the, dog, cat, cat>>
  /\ arg_n = IntOf(1)
  /\ arg_stopwords = None
  /\ arg_top_k = IntOf(2)
  /\ full_counts = DictOf(<< <<cat, 2>>, <<the, 1>> >>)

\* C16 (as stated): whenever top_k is given (any integer, 0 included) the
\* table has at most top_k items.
C16_AtMostTopKWheneverGiven ==
  (Called /\ arg_top_k # None) => Len(Table) <= value(arg_top_k)

\* C17: when no token has been accumulated, or no word passes the
\* threshold and the stopword filter, frequency returns the empty table,
\* whatever n, stopwords and top_k are.
C17_EmptyWhenNothingSurvives ==
  (Called /\ (_words = <<>> \/ Survivors = {})) => full_counts = DictOf(<<>>)

\* C17's case: every token is a stopword, and a top_k is given
C17_Witness ==
  /\ _words = <<the, cat, the>>
  /\ arg_stopwords = SetOf({cat, the})
  /\ arg_top_k = IntOf(-1)
  /\ full_counts = DictOf(<<>>)

\* C17's other case: frequency called on a parser that was fed nothing
C17_WitnessNoTokens ==
  /\ fed = <<>>
  /\ _words = <<>>
  /\ arg_top_k = IntOf(0)
  /\ full_counts = DictOf(<<>>)

(***************************************************************************)
(* load_stopwords.  The file is Missing, Unreadable, or Str(its decoded    *)
(* content).                                                               *)
(***************************************************************************)
\* open(filepath, "r"): in text mode "\r\n" and "\r" are read as "\n"
RECURSIVE universal_newlines(_, _)
universal_newlines(s, i) ==
  IF i > Len(s) THEN <<>>
  ELSE IF s[i] = "\r"
  THEN <<"\n">> \o universal_newlines(s, IF i < Len(s) /\ s[i + 1] = "\n"
                                         THEN i + 2 ELSE i + 1)
  ELSE <<s[i]>> \o universal_newlines(s, i + 1)

\* for line in f: the lines from position i on, each with its line break
RECURSIVE readlines_from(_, _, _)
readlines_from(s, i, line) ==
  IF i > Len(s) THEN (IF line = <<>> THEN <<>> ELSE <<line>>)
  ELSE IF s[i] = "\n"
  THEN <<Append(line, "\n")>> \o readlines_from(s, i + 1, <<>>)
  ELSE readlines_from(s, i + 1, Append(line, s[i]))

readlines(content) == readlines_from(universal_newlines(content, 1), 1, <<>>)

\* faulty variant: the words are not lower-cased
load_stopwords_keeps_case(file) ==
  IF file = Missing \/ file = Unreadable THEN SetOf({})
  ELSE LET lines == readlines(value(file))
       IN SetOf({strip(lines[i]) :
                   i \in {k \in 1..Len(lines) : strip(lines[k]) # <<>>}})

\* load_stopwords(filepath), file being what is at filepath: an exception
\* of open() or of reading is caught and gives set()
load_stopwords(file) ==
  IF file = Missing \/ file = Unreadable THEN SetOf({})
  ELSE LET lines == readlines(value(file))
       IN SetOf({lower(strip(lines[i])) :
                   i \in {k \in 1..Len(lines) : strip(lines[k]) # <<>>}})

(***************************************************************************)
(* SpecStopwords: load_stopwords called on a file that is missing,         *)
(* unreadable, or holds up to MaxStopwordLines lines of StopwordLines      *)
(* joined by "\n".                                                         *)
(***************************************************************************)
StopwordLines ==
  { <<"T", "h", "e">>,
    <<" ", "a", "\t">>,
    <<>>,
    <<" ", "\t">>,
    <<"t", "h", "e", " ">>,
    <<"D", "o", " ", "g", "\r">> }

StopwordFiles ==
  {Missing, Unreadable}
    \cup {Str(content) : content \in DocumentsOf(StopwordLines, MaxStopwordLines)}

InitStopwords ==
  /\ IdleHeaders
  /\ IdleParser
  /\ IdleFrequency
  /\ stopwords_file \in StopwordFiles
  /\ stopword_set = Pending
  /\ IdleDb

\* stopwords = load_stopwords()
LoadStopwords ==
  /\ stopword_set = Pending
  /\ stopword_set' = load_stopwords(stopwords_file)
  /\ UNCHANGED <<header_vars, parser_vars, frequency_vars, stopwords_file, db_vars>>

NextStopwords == LoadStopwords

SpecStopwords == InitStopwords /\ [][NextStopwords]_vars

(***************************************************************************)
(* C18: load_stopwords (SpecStopwords).                                    *)
(***************************************************************************)
\* the lines of file content t: a line begins at the beginning of t and
\* after every "\n" or "\r", and runs up to the next of them (so "\r\n"
\* adds an empty line, which is a blank one)
FileLines(t) ==
  LET breaks == {q \in 1..Len(t) : t[q] \in {"\n", "\r"}}
      starts == {p \in 1..Len(t) : p = 1 \/ (p - 1) \in breaks}
  IN {SubSeq(t, p, Min({q \in p..(Len(t) + 1) :
                          q = Len(t) + 1 \/ q \in breaks}) - 1) : p \in starts}

\* C18: load_stopwords returns a set in every case: the empty set for a
\* missing or unreadable file, and for a readable file exactly the lines
\* that are not blank, each whitespace-trimmed and lower-cased.
C18_StopwordsAreTrimmedLowerCasedLines ==
  stopword_set # Pending =>
    IF stopwords_file \in {Missing, Unreadable}
    THEN stopword_set = SetOf({})
    ELSE stopword_set =
           SetOf({LowerCased(Trim(l)) :
                    l \in {k \in FileLines(value(stopwords_file)) :
                             Trim(k) # <<>>}})

\* C18's case: a readable file with an upper-case word, a blank line and a
\* word between whitespace
C18_Witness ==
  /\ stopwords_file = Str(<<"T", "h", "e", "\n", " ", "\t", "\n", " ", "a", "\t">>)
  /\ stopword_set = SetOf({the, <<"a">>})

\* C18's other cases: no file, or a file that cannot be read
C18_WitnessMissing ==
  /\ stopwords_file \in {Missing, Unreadable}
  /\ stopword_set = SetOf({})

(***************************************************************************)
(* Table wordFreqs and store_word_frequencies.  A table is the set of its  *)
(* rows; the primary key of wordFreqs is (projGutID, word).                *)
(***************************************************************************)
\* faulty variant: INSERT OR IGNORE, the row already stored is kept
insert_or_ignore(table, row) ==
  IF \E r \in table : r.projGutID = row.projGutID /\ r.word = row.word
  THEN table
  ELSE table \cup {row}

\* INSERT OR REPLACE INTO wordFreqs: a stored row with the primary key of
\* the new row is deleted, then the new row is inserted
insert_or_replace(table, row) ==
  {r \in table : ~(r.projGutID = row.projGutID /\ r.word = row.word)}
    \cup {row}

\* the for loop of store_word_frequencies over the pairs from index i on
RECURSIVE store_from(_, _, _, _)
store_from(table, gutID_int, top10, i) ==
  IF i > Len(top10) THEN table
  ELSE store_from(insert_or_replace(table,
                    [projGutID |-> gutID_int, word |-> top10[i][1],
                     word_count |-> top10[i][2]]),
                  gutID_int, top10, i + 1)

store_word_frequencies(table, gutID_int, top10) ==
  store_from(table, gutID_int, top10, 1)

(***************************************************************************)
(* SpecWordFreqs: store_word_frequencies called any number of times, for   *)
(* one of two books, with a list of up to MaxTopRows (word, count) pairs.  *)
(***************************************************************************)
GutIDs == {84, 1342}

WordCounts == {cat, dog} \X {5, 6}

TopLists == UNION {[1..k -> WordCounts] : k \in 0..MaxTopRows}

InitWordFreqs ==
  /\ IdleHeaders
  /\ IdleParser
  /\ IdleFrequency
  /\ IdleStopwords
  /\ IdleDb

StoreWordFrequencies ==
  \E gutID_int \in GutIDs, top10 \in TopLists :
    /\ wordFreqs' = store_word_frequencies(wordFreqs, gutID_int, top10)
    /\ last_gutID' = IntOf(gutID_int)
    /\ last_top10' = ListOf(top10)
    /\ UNCHANGED <<header_vars, parser_vars, frequency_vars, stopword_vars>>
    /\ UNCHANGED <<author, author_id, book, bookAuthors, run>>

NextWordFreqs == StoreWordFrequencies

SpecWordFreqs == InitWordFreqs /\ [][NextWordFreqs]_vars

(***************************************************************************)
(* C19: store_word_frequencies (SpecWordFreqs).                            *)
(***************************************************************************)
\* the latest call wrote the pair (book g, word w)
WrittenByLatestCall(g, w) ==
  /\ last_gutID = IntOf(g)
  /\ \E i \in 1..Len(value(last_top10)) : value(last_top10)[i][1] = w

\* C19: wordFreqs never holds two rows for one (projGutID, word); after a
\* call the row of each pair it wrote holds the count of the call's last
\* write of that pair; and the rows of the pairs a call did not write are
\* the same after the call as before it (none changed, added or removed).
\* So each row holds the most recent write of its pair.
C19_LastWriteWinsPerKey ==
  /\ [](\A r1, r2 \in wordFreqs :
          (r1.projGutID = r2.projGutID /\ r1.word = r2.word) => r1 = r2)
  /\ [](last_top10 # Pending =>
          \A i \in 1..Len(value(last_top10)) :
            (\A j \in (i + 1)..Len(value(last_top10)) :
               value(last_top10)[j][1] # value(last_top10)[i][1])
            => [projGutID |-> value(last_gutID),
                word |-> value(last_top10)[i][1],
                word_count |-> value(last_top10)[i][2]] \in wordFreqs)
  /\ [][\A r \in wordFreqs \cup wordFreqs' :
          ~WrittenByLatestCall(r.projGutID, r.word)' =>
            (r \in wordFreqs /\ r \in wordFreqs')]_vars

\* C19's case: the latest call wrote (1342, cat) twice, 5 then 6, over an
\* earlier row of that pair or none; rows written by earlier calls for
\* another word and for another book are still there
C19_Witness ==
  /\ last_gutID = IntOf(1342)
  /\ last_top10 = ListOf(<< <<cat, 5>>, <<cat, 6>> >>)
  /\ wordFreqs = {[projGutID |-> 1342, word |-> cat, word_count |-> 6],
                  [projGutID |-> 1342, word |-> dog, word_count |-> 5],
                  [projGutID |-> 84, word |-> cat, word_count |-> 5]}

(***************************************************************************)
(* Table author (id INTEGER PRIMARY KEY AUTOINCREMENT, first, last) and    *)
(* get_or_create_author.  A NULL column is None.                           *)
(***************************************************************************)
\* SQL's column = ? : never true when either side is NULL
sql_equals(column, parameter) ==
  column # None /\ parameter # None /\ column = parameter

\* SELECT id FROM author WHERE first = ? AND last = ? : the rows selected
select_author(table, first, last) ==
  {r \in table : sql_equals(r.first, first) /\ sql_equals(r.last, last)}

\* cur.lastrowid after INSERT INTO author: AUTOINCREMENT gives the id after
\* the largest one used (no row is ever deleted)
lastrowid(table) ==
  IF table = {} THEN 1 ELSE Max({r.id : r \in table}) + 1

(***************************************************************************)
(* SpecAuthors: get_or_create_author called any number of times, until     *)
(* the table holds MaxAuthorRows rows.  first is None for a mononym.       *)
(***************************************************************************)
FirstNames == {None, Str(<<"J", "a", "n", "e">>)}

LastNames ==
  {Str(<<"D", "o", "e">>), Str(<<"H", "o", "m", "e", "r">>),
   Str(<<"P", "l", "a", "t", "o">>)}

InitAuthors ==
  /\ IdleHeaders
  /\ IdleParser
  /\ IdleFrequency
  /\ IdleStopwords
  /\ IdleDb

\* author_id = get_or_create_author(cur, first, last); fetchone() returns
\* one of the selected rows
GetOrCreateAuthor ==
  \E first \in FirstNames, last \in LastNames :
    /\ IF select_author(author, first, last) # {}
       THEN /\ \E row \in select_author(author, first, last) :
                 author_id' = IntOf(row.id)
            /\ author' = author
       ELSE /\ Cardinality(author) < MaxAuthorRows
            /\ author' = author \cup {[id |-> lastrowid(author),
                                       first |-> first, last |-> last]}
            /\ author_id' = IntOf(lastrowid(author))
    /\ UNCHANGED <<header_vars, parser_vars, frequency_vars, stopword_vars>>
    /\ UNCHANGED <<wordFreqs, last_gutID, last_top10, book, bookAuthors, run>>

NextAuthors == GetOrCreateAuthor

SpecAuthors == InitAuthors /\ [][NextAuthors]_vars

(***************************************************************************)
(* C20: get_or_create_author (SpecAuthors).                                *)
(***************************************************************************)
\* C20 (as stated): get_or_create_author is idempotent for every name, a
\* mononym (first = None) included: only the first call for (first, last)
\* inserts a row, so the author table never holds two rows with the same
\* (first, last).
C20_OneRowPerName ==
  \A r1, r2 \in author :
    (r1.first = r2.first /\ r1.last = r2.last) => r1.id = r2.id

(***************************************************************************)
(* click(): the SUBMIT handler.  The tables hold what is committed: what   *)
(* a run wrote and did not commit is lost when its finally clause closes   *)
(* the connection.  book is (projGutID PRIMARY KEY, title), bookAuthors    *)
(* is (projGutID, author_id, author_order) with PRIMARY KEY (projGutID,    *)
(* author_id).                                                             *)
(***************************************************************************)
\* a row a SELECT ... fetchone() returned
Row(r) == <<"row", r>>

\* the rows of wordFreqs stored for book g
freq_rows_of(freqs, g) == {r \in freqs : r.projGutID = g}

\* faulty variant: the stored frequencies are not found
lookup_book_and_freqs_finds_no_freqs(books, freqs, g) ==
  [book_row |-> IF \E b \in books : b.projGutID = g
                THEN Row(CHOOSE b \in books : b.projGutID = g)
                ELSE None,
   freq_rows |-> None]

\* lookup_book_and_freqs(cur, gutID_int): (book_row, freq_rows), book_row
\* None when the book is absent, freq_rows None when no row is stored
lookup_book_and_freqs(books, freqs, g) ==
  [book_row |-> IF \E b \in books : b.projGutID = g
                THEN Row(CHOOSE b \in books : b.projGutID = g)
                ELSE None,
   freq_rows |-> IF freq_rows_of(freqs, g) = {} THEN None
                 ELSE SetOf(freq_rows_of(freqs, g))]

\* sorted(freq_rows, key=count, reverse=True)[:10] of show_top10_from_db:
\* the sets of rows it can display.  The SELECT has no ORDER BY, so among
\* rows of equal count any may come first.
displayed(rows) ==
  IF Cardinality(rows) <= 10 THEN {rows}
  ELSE {S \in SUBSET rows :
          /\ Cardinality(S) = 10
          /\ \A r \in S, q \in rows \ S : r.word_count >= q.word_count}

\* book_title = raw_title or "Unknown Title"
book_title(raw_title) ==
  IF raw_title = None \/ value(raw_title) = <<>>
  THEN <<"U", "n", "k", "n", "o", "w", "n", " ", "T", "i", "t", "l", "e">>
  ELSE value(raw_title)

\* if book_row is None: INSERT INTO book (projGutID, title); con.commit()
insert_book_if_absent(books, book_row, g, t) ==
  IF book_row = None
  THEN books \cup {[projGutID |-> g, title |-> book_title(extract_title(t))]}
  ELSE books

\* faulty variant: any number of authors is accepted
too_few_never(num_authors) == FALSE

\* if not num_authors or num_authors < 1: the run is aborted
too_few(num_authors) == num_authors = 0 \/ num_authors < 1

\* first = first.strip(); if first == "" or first.lower() == "none":
\* first = None
first_name(typed) ==
  IF strip(typed) = <<>> \/ lower(strip(typed)) = <<"n", "o", "n", "e">>
  THEN None
  ELSE Str(strip(typed))

\* get_or_create_author(cur, first, last): the table and the id returned.
\* fetchone() returns the selected row; no two rows share a name that
\* select_author can find.
get_or_create_author(table, first, last) ==
  IF select_author(table, first, last) # {}
  THEN [author |-> table,
        author_id |-> (CHOOSE r \in select_author(table, first, last) :
                         TRUE).id]
  ELSE [author |-> table \cup {[id |-> lastrowid(table),
                                 first |-> first, last |-> last]},
        author_id |-> lastrowid(table)]

\* the author loop of click over the entries typed, from entry i on: the
\* author table and author_ids after it
RECURSIVE collect_authors(_, _, _, _)
collect_authors(table, entries, i, author_ids) ==
  IF i > Len(entries)
  THEN [author |-> table, author_ids |-> author_ids]
  ELSE LET got == get_or_create_author(table, first_name(entries[i][1]),
                                       Str(strip(entries[i][2])))
       IN collect_authors(got.author, entries, i + 1,
                          Append(author_ids, got.author_id))

\* for order, a_id in enumerate(author_ids, start=1): INSERT OR IGNORE INTO
\* bookAuthors (projGutID, author_id, author_order), from index order on
RECURSIVE link_authors(_, _, _, _)
link_authors(table, g, author_ids, order) ==
  IF order > Len(author_ids) THEN table
  ELSE link_authors(
         IF \E r \in table :
              r.projGutID = g /\ r.author_id = author_ids[order]
         THEN table
         ELSE table \cup {[projGutID |-> g, author_id |-> author_ids[order],
                           author_order |-> order]},
         g, author_ids, order + 1)

\* parser = MyHTMLParser(); parser.feed(text.lower());
\* stopwords = load_stopwords(); parser.frequency(5, stopwords, top_k=None)
click_full_counts(t, file) ==
  frequency(feed(MyHTMLParser(<<>>), lower(t)), IntOf(5),
            load_stopwords(file), None)

\* top10 = sorted(full_counts.items(), key=count, reverse=True)[:10]
click_top10(counts) == slice_to(sorted_by_count(value(counts)), 10)

(***************************************************************************)
(* SpecClick: click() run any number of times on an empty database, for    *)
(* one of two books, each run ending in one of the ways the handler can    *)
(* end.  Book 84 has a title line and eleven words that occur five times   *)
(* or more, the last of them most often; book 1342 has no title line and   *)
(* only the word "the", five times.  The stopword file is missing or       *)
(* holds "the" and "k".  A run prompts for up to MaxAuthorsPerRun authors  *)
(* and the author table holds up to MaxClickAuthorRows rows.               *)
(***************************************************************************)
MaxAuthorsPerRun == 2

MaxClickAuthorRows == 2

RECURSIVE repeated(_, _)
repeated(w, k) == IF k = 0 THEN <<>> ELSE <<w>> \o repeated(w, k - 1)

Library ==
  [g \in GutIDs |->
     IF g = 84
     THEN <<"T", "i", "t", "l", "e", ":", " ", "Z", "z", "\n">> \o
          join_words(repeated(<<"a">>, 5) \o repeated(<<"b">>, 5) \o
                     repeated(<<"c">>, 5) \o repeated(<<"d">>, 5) \o
                     repeated(<<"e">>, 5) \o repeated(<<"f">>, 5) \o
                     repeated(<<"g">>, 5) \o repeated(<<"h">>, 5) \o
                     repeated(<<"i">>, 5) \o repeated(<<"j">>, 5) \o
                     repeated(<<"K">>, 6))
     ELSE join_words(repeated(<<"T", "h", "e">>, 5))]

ClickStopwordFiles == {Missing, Str(<<"t", "h", "e", "\n", "k", "\n">>)}

\* what the user types for (first, last): a mononym and a full name
TypedNames ==
  {<< <<"N", "o", "n", "e">>, <<"H", "o", "m", "e", "r">> >>,
   << <<"J", "a", "n", "e">>, <<" ", "D", "o", "e">> >>}

AuthorEntries(num_authors) == [1..num_authors -> TypedNames]

InitClick ==
  /\ IdleHeaders
  /\ IdleParser
  /\ IdleFrequency
  /\ stopwords_file \in ClickStopwordFiles
  /\ stopword_set = Pending
  /\ IdleDb

\* what every run leaves alone: the variables of the other specifications
ClickFrame ==
  /\ UNCHANGED <<header_vars, parser_vars, frequency_vars, stopword_vars>>
  /\ UNCHANGED <<author_id, last_gutID, last_top10>>

\* get_requested_gutenberg_id() gives an error (lines 514-518)
ClickInputError ==
  /\ run' = [gutID |-> None, outcome |-> "input_error", fetched |-> FALSE,
             prompted |-> FALSE, shown |-> None]
  /\ UNCHANGED <<author, wordFreqs, book, bookAuthors>>
  /\ ClickFrame

\* sqlite3.connect or ensure_tables_exist raises (lines 522-530)
ClickConnectError ==
  \E g \in GutIDs :
    /\ run' = [gutID |-> IntOf(g), outcome |-> "connect_error",
               fetched |-> FALSE, prompted |-> FALSE, shown |-> None]
    /\ UNCHANGED <<author, wordFreqs, book, bookAuthors>>
    /\ ClickFrame

\* stored frequencies are found and displayed (lines 532-538)
ClickReuse ==
  \E g \in GutIDs :
    LET found == lookup_book_and_freqs(book, wordFreqs, g)
    IN /\ found.freq_rows # None
       /\ \E shown \in displayed(value(found.freq_rows)) :
            run' = [gutID |-> IntOf(g), outcome |-> "reused",
                    fetched |-> FALSE, prompted |-> FALSE,
                    shown |-> SetOf(shown)]
       /\ UNCHANGED <<author, wordFreqs, book, bookAuthors>>
       /\ ClickFrame

\* fetch_gutenberg_text gives an error (lines 541-547)
ClickFetchError ==
  \E g \in GutIDs :
    LET found == lookup_book_and_freqs(book, wordFreqs, g)
    IN /\ found.freq_rows = None
       /\ run' = [gutID |-> IntOf(g), outcome |-> "fetch_error",
                  fetched |-> TRUE, prompted |-> FALSE, shown |-> None]
       /\ UNCHANGED <<author, wordFreqs, book, bookAuthors>>
       /\ ClickFrame

\* the INSERT INTO book or its commit raises an exception other than
\* IntegrityError (lines 565-567)
ClickBookError ==
  \E g \in GutIDs :
    LET found == lookup_book_and_freqs(book, wordFreqs, g)
    IN /\ found.freq_rows = None
       /\ found.book_row = None
       /\ run' = [gutID |-> IntOf(g), outcome |-> "book_error",
                  fetched |-> TRUE, prompted |-> FALSE, shown |-> None]
       /\ UNCHANGED <<author, wordFreqs, book, bookAuthors>>
       /\ ClickFrame

\* the run ends between the book record and the commit of the author
\* links: the number of authors is cancelled or too small, a name is
\* cancelled, a last name is empty, or a link INSERT raises (lines
\* 574-640).  The book record is committed; the author rows written so
\* far are not, and are lost when the connection is closed.
ClickAbort ==
  \E g \in GutIDs :
    LET found == lookup_book_and_freqs(book, wordFreqs, g)
    IN /\ found.freq_rows = None
       /\ book' = insert_book_if_absent(book, found.book_row, g, Library[g])
       /\ run' = [gutID |-> IntOf(g), outcome |-> "aborted",
                  fetched |-> TRUE, prompted |-> TRUE, shown |-> None]
       /\ UNCHANGED <<author, wordFreqs, bookAuthors>>
       /\ ClickFrame

\* book record, authors and links are committed (lines 554-640): the
\* tables after the author prompts for num_authors entries
LinkAuthors(g, found) ==
  \E num_authors \in 0..MaxAuthorsPerRun :
    \E entries \in AuthorEntries(num_authors) :
      LET got == collect_authors(author, entries, 1, <<>>)
      IN /\ ~too_few(num_authors)
         /\ Cardinality(got.author) <= MaxClickAuthorRows
         /\ book' = insert_book_if_absent(book, found.book_row, g,
                                          Library[g])
         /\ author' = got.author
         /\ bookAuthors' = link_authors(bookAuthors, g, got.author_ids, 1)

\* then full_counts is empty: "No valid tokens found after filtering."
\* (lines 654-656)
ClickNoTokens(g, found, full) ==
  /\ value(full) = <<>>
  /\ LinkAuthors(g, found)
  /\ run' = [gutID |-> IntOf(g), outcome |-> "no_tokens",
             fetched |-> TRUE, prompted |-> TRUE, shown |-> None]
  /\ UNCHANGED wordFreqs
  /\ ClickFrame

\* then an INSERT OR REPLACE INTO wordFreqs or the commit raises: "Error
\* saving word frequencies" (lines 673-675); the rows written are lost
\* with the connection
ClickSaveError(g, found, full) ==
  /\ value(full) # <<>>
  /\ LinkAuthors(g, found)
  /\ run' = [gutID |-> IntOf(g), outcome |-> "save_error",
             fetched |-> TRUE, prompted |-> TRUE, shown |-> None]
  /\ UNCHANGED wordFreqs
  /\ ClickFrame

\* then the top 10 are stored, committed, read back and displayed (lines
\* 658-680)
ClickStore(g, found, full) ==
  LET stored == store_from(wordFreqs, g, click_top10(full), 1)
  IN /\ value(full) # <<>>
     /\ LinkAuthors(g, found)
     /\ wordFreqs' = stored
     /\ \E shown \in displayed(freq_rows_of(stored, g)) :
          run' = [gutID |-> IntOf(g), outcome |-> "stored",
                  fetched |-> TRUE, prompted |-> TRUE,
                  shown |-> SetOf(shown)]
     /\ ClickFrame

\* the runs that get as far as counting the words of the text
ClickCount ==
  \E g \in GutIDs :
    LET found == lookup_book_and_freqs(book, wordFreqs, g)
        full == click_full_counts(Library[g], stopwords_file)
    IN /\ found.freq_rows = None
       /\ \/ ClickNoTokens(g, found, full)
          \/ ClickSaveError(g, found, full)
          \/ ClickStore(g, found, full)

NextClick ==
  \/ ClickInputError
  \/ ClickConnectError
  \/ ClickReuse
  \/ ClickFetchError
  \/ ClickBookError
  \/ ClickAbort
  \/ ClickCount

SpecClick == InitClick /\ [][NextClick]_vars

(***************************************************************************)
(* C21, C22, C24, C25: click (SpecClick).                                  *)
(***************************************************************************)
\* C21: a run for an ID that has rows in wordFreqs fetches nothing,
\* prompts for nothing and leaves book, author, bookAuthors and wordFreqs
\* as they are; and, unless the database could not be opened, it ends by
\* displaying exactly the stored rows.
C21_StoredResultsAreReused ==
  [][\A g \in GutIDs :
       (freq_rows_of(wordFreqs, g) # {} /\ run'.gutID = IntOf(g)) =>
         /\ ~run'.fetched
         /\ ~run'.prompted
         /\ UNCHANGED <<book, author, bookAuthors, wordFreqs>>
         /\ run'.outcome # "connect_error" =>
              /\ run'.outcome = "reused"
              /\ run'.shown = SetOf(freq_rows_of(wordFreqs, g))]_vars

\* C21's case: the latest run was for book 84, whose ten rows were stored
\* by an earlier run, and displayed them
C21_Witness ==
  /\ run.gutID = IntOf(84)
  /\ run.outcome = "reused"
  /\ Cardinality(freq_rows_of(wordFreqs, 84)) = 10
  /\ run.shown = SetOf(freq_rows_of(wordFreqs, 84))

\* the entries of frequency(5, stopwords) for the text of book g, as rows
FrequencyRows(g) ==
  LET table == value(frequency(feed(MyHTMLParser(<<>>), lower(Library[g])),
                               IntOf(5), load_stopwords(stopwords_file),
                               None))
  IN {[projGutID |-> g, word |-> table[i][1], word_count |-> table[i][2]] :
        i \in 1..Len(table)}

\* C22: in every reachable state a book has at most 10 rows in wordFreqs,
\* and the rows of a book that has any are entries of frequency(5,
\* stopwords) of its text: 10 of them, or all when there are fewer, and no
\* entry left out has a higher count than a row stored.
C22_AtMostTenHighestCounts ==
  \A g \in GutIDs :
    LET rows == freq_rows_of(wordFreqs, g)
    IN /\ Cardinality(rows) <= 10
       /\ rows # {} =>
            /\ rows \subseteq FrequencyRows(g)
            /\ Cardinality(rows) = Min({10, Cardinality(FrequencyRows(g))})
            /\ \A r \in rows, e \in FrequencyRows(g) \ rows :
                 r.word_count >= e.word_count

\* C22's case: eleven words of book 84 occur five times or more; ten rows
\* are stored, "k" with its six occurrences among them and "j" left out;
\* book 1342 has its single row
C22_Witness ==
  /\ stopwords_file = Missing
  /\ Cardinality(freq_rows_of(wordFreqs, 84)) = 10
  /\ [projGutID |-> 84, word |-> <<"k">>, word_count |-> 6] \in wordFreqs
  /\ \A r \in wordFreqs : r.word # <<"j">>
  /\ freq_rows_of(wordFreqs, 1342) =
       {[projGutID |-> 1342, word |-> the, word_count |-> 5]}

\* C24 (as stated): in every reachable state the author_order values of
\* the bookAuthors rows of one book are pairwise distinct.
C24_AuthorOrdersDistinct ==
  \A l1, l2 \in bookAuthors :
    (l1.projGutID = l2.projGutID /\ l1.author_order = l2.author_order)
      => l1 = l2

\* C25: in every reachable state an ID that has rows in wordFreqs has a
\* row in book and at least one row in bookAuthors.
C25_FrequenciesOnlyWithBookAndAuthors ==
  \A r \in wordFreqs :
    /\ \E b \in book : b.projGutID = r.projGutID
    /\ \E l \in bookAuthors : l.projGutID = r.projGutID

\* C25's case: the frequencies of book 84 are stored, with its book record
\* and its links to two authors; book 1342 has a record and a link and,
\* its run having ended early, no frequencies
C25_Witness ==
  /\ freq_rows_of(wordFreqs, 84) # {}
  /\ Cardinality({l \in bookAuthors : l.projGutID = 84}) = 2
  /\ freq_rows_of(wordFreqs, 1342) = {}
  /\ \E b \in book : b.projGutID = 1342
  /\ \E l \in bookAuthors : l.projGutID = 1342

(***************************************************************************)
(* C23: extract_author_block (SpecHeaders).                                *)
(***************************************************************************)
\* C23 (as stated): when the author field name is followed by a value on
\* its own line, the returned block holds that whole line (up to its
\* trailing whitespace): the block never ends before the line does, also
\* when the value holds a colon.
C23_BlockHoldsWholeAuthorLine ==
  AuthorBlockTaken =>
    LET l == LineAt(text, AuthorStart(text))
    IN Trim(AfterFirstColon(l)) # <<>> =>
         IsPrefix(TrimRight(l), value(author_block))

====
